---- MODULE Spec2Model ----
(***************************************************************************)
(* Model of src/app.py: the dollar-cost-averaging versus lump-sum          *)
(* simulator.  One run of the script body under `if submitted:` is a       *)
(* sequential state machine: download, the two data checks,                *)
(* generate_schedule (one action per iteration of its outer while loop),   *)
(* the DCA loop, the metrics and the lump-sum entry.                       *)
(*                                                                         *)
(* Representation.                                                         *)
(*   - a datetime at midnight is its proleptic Gregorian ordinal           *)
(*     (0001-01-01 is 1), so `+ timedelta(days=n)` is integer addition;    *)
(*   - a '%Y-%m-%d' string is the triple <<year, month, day>>; strftime    *)
(*     and strptime are the conversions Strftime and Strptime below;       *)
(*   - a float is an exact rational <<num, den>> in lowest terms, or one   *)
(*     of the IEEE specials NaN, PosInf, NegInf that numpy's float64       *)
(*     division produces for a zero divisor.                               *)
(***************************************************************************)
EXTENDS Integers, Sequences, FiniteSets

(***************************************************************************)
(* Calendar arithmetic of datetime (proleptic Gregorian calendar).         *)
(***************************************************************************)
IsLeap(y) == (y % 4 = 0) /\ ((y % 100 # 0) \/ (y % 400 = 0))

DaysInMonth(y, m) ==
  IF m = 2 THEN (IF IsLeap(y) THEN 29 ELSE 28)
  ELSE IF m \in {4, 6, 9, 11} THEN 30 ELSE 31

DaysBeforeYear(y) ==
  (y - 1) * 365 + ((y - 1) \div 4) - ((y - 1) \div 100) + ((y - 1) \div 400)

DaysBeforeMonth(y, m) ==
  <<0, 31, 59, 90, 120, 151, 181, 212, 243, 273, 304, 334>>[m]
  + (IF m > 2 /\ IsLeap(y) THEN 1 ELSE 0)

\* datetime(y, m, d).toordinal()
Ord(y, m, d) == DaysBeforeYear(y) + DaysBeforeMonth(y, m) + d

\* the year of an ordinal (datetime.fromordinal(n).year)
YearOf(n) ==
  LET n0   == n - 1
      n400 == n0 \div 146097
      r400 == n0 % 146097
      n100 == r400 \div 36524
      r100 == r400 % 36524
      n4   == r100 \div 1461
      r4   == r100 % 1461
      n1   == r4 \div 365
      y    == n400 * 400 + n100 * 100 + n4 * 4 + n1 + 1
  IN  IF n1 = 4 \/ n100 = 4 THEN y - 1 ELSE y

MonthOf(n) ==
  LET y == YearOf(n)
      k == n - DaysBeforeYear(y)
  IN  CHOOSE m \in 1..12 :
        /\ DaysBeforeMonth(y, m) < k
        /\ k <= DaysBeforeMonth(y, m) + DaysInMonth(y, m)

DayOf(n) ==
  LET y == YearOf(n) IN n - DaysBeforeYear(y) - DaysBeforeMonth(y, MonthOf(n))

\* datetime.strftime('%Y-%m-%d'): the zero-padded fields, as a triple
Strftime(n) == <<YearOf(n), MonthOf(n), DayOf(n)>>

\* datetime.strptime(s, '%Y-%m-%d')
Strptime(s) == Ord(s[1], s[2], s[3])

\* order of two '%Y-%m-%d' strings (lexicographic on the padded fields)
StrLess(a, b) ==
  \/ a[1] < b[1]
  \/ a[1] = b[1] /\ a[2] < b[2]
  \/ a[1] = b[1] /\ a[2] = b[2] /\ a[3] < b[3]

\* datetime.weekday(): Monday is 0
Weekday(n) == (n + 6) % 7

\* current.replace(day=d)
ReplaceDay(n, d) == Ord(YearOf(n), MonthOf(n), d)

\* first-of-month datetime + pd.DateOffset(months=k)
AddMonths(n, k) ==
  LET t == YearOf(n) * 12 + (MonthOf(n) - 1) + k
  IN  Ord(t \div 12, (t % 12) + 1, DayOf(n))

(***************************************************************************)
(* Float arithmetic.  A finite float is the reduced fraction <<n, d>>,     *)
(* d > 0; every finite value the model produces is computed exactly.       *)
(***************************************************************************)
RECURSIVE GCD(_, _)
GCD(a, b) == IF b = 0 THEN a ELSE GCD(b, a % b)

Abs(a) == IF a < 0 THEN 0 - a ELSE a

Rat(n, d) ==
  LET g == GCD(Abs(n), Abs(d))
      s == IF d < 0 THEN 0 - 1 ELSE 1
  IN  <<(s * n) \div g, (s * d) \div g>>

Flt(n) == <<n, 1>>
FAdd(a, b) == Rat(a[1] * b[2] + b[1] * a[2], a[2] * b[2])
FSub(a, b) == Rat(a[1] * b[2] - b[1] * a[2], a[2] * b[2])
FMul(a, b) == Rat(a[1] * b[1], a[2] * b[2])

\* the IEEE specials, as fractions with a zero denominator
NaN == <<0, 0>>
PosInf == <<1, 0>>
NegInf == <<0 - 1, 0>>
IsFinite(a) == a[2] # 0

\* numpy float64 true division: a zero divisor gives nan or +-inf (with a
\* RuntimeWarning), not an exception
FDiv(a, b) ==
  IF b[1] = 0
    THEN (IF a[1] = 0 THEN NaN ELSE IF a[1] > 0 THEN PosInf ELSE NegInf)
    ELSE Rat(a[1] * b[2], a[2] * b[1])

\* the value (ending / contributed) ** (1 / years) - 1, kept unevaluated:
\* a fractional power has no exact value
Pow(base, days) == <<"pow", base, days>>

(***************************************************************************)
(* Inputs: the form (lines 16-32) and what the download may hand back.     *)
(***************************************************************************)
\* the six options of the selectbox, and one value outside them
ValidFrequencies ==
  {"daily", "weekly", "monthly", "quarterly", "semiannually", "annually"}
Frequencies == ValidFrequencies \cup {"hourly"}

\* dates entered as start or end
FormDates ==
  {Ord(2020, 1, 1), Ord(2020, 1, 4), Ord(2020, 1, 31),
   Ord(2020, 2, 29), Ord(2020, 3, 31)}

Amounts == {0, 200}

\* number of exchange holidays a downloaded calendar may have
MaxHolidays == 1

HolidayCandidates == {Ord(2020, 1, 1), Ord(2020, 2, 28), Ord(2020, 3, 30)}
DataFirstDays == {Ord(2020, 1, 1)}
DataLastDays == {Ord(2020, 1, 3), Ord(2020, 3, 31)}
Calendars == {"weekdays", "alldays"}
PricePatterns == {"flat", "step"}
ColumnSets == {{"Date", "Close", "Volume"}, {"Date", "Volume"}}

\* the price observed on day n under a pattern
PriceOn(pattern, n) ==
  IF pattern = "flat" THEN 100
  ELSE IF n < Ord(2020, 1, 16) THEN 50 ELSE 200

IsOpen(cal, holidays, n) ==
  /\ n \notin holidays
  /\ cal = "weekdays" => Weekday(n) < 5

\* rows of a downloaded frame, oldest first
Rows(cal, holidays, pattern, lo, hi) ==
  SelectSeq([i \in 1..(hi - lo + 1) |->
               [Date |-> lo + i - 1, price |-> PriceOn(pattern, lo + i - 1)]],
            LAMBDA r : IsOpen(cal, holidays, r.Date))

Downloads ==
  {<<>>} \cup
  {Rows(cal, h, pat, lo, hi) :
     cal \in Calendars,
     h \in {hs \in SUBSET HolidayCandidates : Cardinality(hs) <= MaxHolidays},
     pat \in PricePatterns, lo \in DataFirstDays, hi \in DataLastDays}

(***************************************************************************)
(* State.                                                                  *)
(***************************************************************************)
VARIABLES
  pc,                  \* position in the script
  start_date_obj,      \* line 38
  end_date_obj,        \* line 39
  start_date_str,      \* line 40
  end_date_str,        \* line 41
  frequency,           \* line 28
  investment_amount,   \* line 17
  lump_sum_amount,     \* line 18
  data,                \* line 44: rows <<Date, price>>, oldest first
  columns,             \* data.columns
  trading_days,        \* line 111
  current,             \* generate_schedule: the cursor
  schedule,            \* generate_schedule: the list being built
  nominal,             \* the cursor values that passed the test of line 81
  total_contributions, total_shares,
  bought,              \* dates of the schedule the loop of line 120 has consumed
  ending_value_dca, growth_dca, return_pct_dca, cagr_dca,
  initial_price, shares_lump_sum

form == <<start_date_obj, end_date_obj, start_date_str, end_date_str,
          frequency, investment_amount, lump_sum_amount>>
frame == <<data, columns>>
gen == <<current, schedule, nominal>>
dca == <<total_contributions, total_shares, bought>>
metrics == <<ending_value_dca, growth_dca, return_pct_dca, cagr_dca>>
lump == <<initial_price, shares_lump_sum>>
vars == <<pc, form, frame, trading_days, gen, dca, metrics, lump>>

\* a variable not yet assigned
None == <<>>

Init ==
  /\ pc = "download"
  /\ start_date_obj \in FormDates
  /\ end_date_obj \in FormDates
  /\ start_date_str = Strftime(start_date_obj)
  /\ end_date_str = Strftime(end_date_obj)
  /\ frequency \in Frequencies
  /\ investment_amount \in Amounts
  /\ lump_sum_amount = 10000
  /\ data = <<>>
  /\ columns = {}
  /\ trading_days = {}
  /\ current = None
  /\ schedule = <<>>
  /\ nominal = <<>>
  /\ total_contributions = None
  /\ total_shares = None
  /\ bought = 0
  /\ ending_value_dca = None
  /\ growth_dca = None
  /\ return_pct_dca = None
  /\ cagr_dca = None
  /\ initial_price = None
  /\ shares_lump_sum = None

(***************************************************************************)
(* Lines 43-72: download and the two checks.                               *)
(***************************************************************************)
\* line 44
Download ==
  /\ pc = "download"
  /\ data' \in Downloads
  /\ columns' \in ColumnSets
  /\ pc' = "check_empty"
  /\ UNCHANGED <<form, trading_days, gen, dca, metrics, lump>>

\* the emptiness test inverted
IsEmptyInverted(d) == Len(d) # 0

\* data.empty
IsEmpty(d) == Len(d) = 0

\* lines 46-48: st.error, st.stop
StopNoData ==
  /\ pc = "check_empty"
  /\ IsEmpty(data)
  /\ pc' = "stopped_no_data"
  /\ UNCHANGED <<form, frame, trading_days, gen, dca, metrics, lump>>

\* lines 58-62: the first candidate present among the columns
PriceColumn(cols) ==
  IF "Adj Close" \in cols THEN "Adj Close"
  ELSE IF "Close" \in cols THEN "Close" ELSE "no column"

\* lines 64-66
StopNoPriceColumn ==
  /\ pc = "check_empty"
  /\ ~IsEmpty(data)
  /\ PriceColumn(columns) = "no column"
  /\ pc' = "stopped_no_column"
  /\ UNCHANGED <<form, frame, trading_days, gen, dca, metrics, lump>>

\* line 111: the '%Y-%m-%d' strings of the Date column; the list is only
\* ever tested for membership, so it is kept as the set of its elements
TradingDays(d) == {Strftime(d[i].Date) : i \in 1..Len(d)}

\* lines 50-79, 111-114: the frame is reduced to Date and price, the trading
\* days are listed and generate_schedule is entered
ScheduleStart ==
  /\ pc = "check_empty"
  /\ ~IsEmpty(data)
  /\ PriceColumn(columns) # "no column"
  /\ trading_days' = TradingDays(data)
  /\ current' = Strptime(start_date_str)
  /\ schedule' = <<>>
  /\ nominal' = <<>>
  /\ pc' = "schedule"
  /\ UNCHANGED <<form, frame, dca, metrics, lump>>

(***************************************************************************)
(* Lines 75-108: generate_schedule.                                        *)
(***************************************************************************)
\* the loop test with the end excluded
LoopCondStrict(cur, end) == cur < end

\* the loop test running one day past the end
LoopCondPastEnd(cur, end) == cur <= end + 1

\* line 81
LoopCond(cur, end) == cur <= end

\* some trading day is on or after the cursor
CanRoll(cur, td) ==
  \A raw_date \in {Strftime(cur)} : ~(\A s \in td : StrLess(s, raw_date))

\* the roll-forward left out: the cursor is taken as it is
RollNoScan(cur, td) == cur

\* lines 82-85: the cursor after the inner while loop, when it ends
RECURSIVE Roll(_, _)
Roll(cur, td) == IF Strftime(cur) \in td THEN cur ELSE Roll(cur + 1, td)

\* the period advance with the weekly step of one day
PeriodAdvanceWeeklyAsDaily(cur, freq, start) ==
  LET day == IF DayOf(start) <= 28 THEN DayOf(start) ELSE 28
      months(k) == ReplaceDay(AddMonths(ReplaceDay(cur, 1), k), day)
  IN  CASE freq = "daily" -> <<cur + 1>>
        [] freq = "weekly" -> <<cur + 1>>
        [] freq = "monthly" -> <<months(1)>>
        [] freq = "quarterly" -> <<months(3)>>
        [] freq = "semiannually" -> <<months(6)>>
        [] freq = "annually" -> <<months(12)>>
        [] OTHER -> <<>>

\* the period advance with the monthly step of three months
PeriodAdvanceMonthlyAsQuarterly(cur, freq, start) ==
  LET day == IF DayOf(start) <= 28 THEN DayOf(start) ELSE 28
      months(k) == ReplaceDay(AddMonths(ReplaceDay(cur, 1), k), day)
  IN  CASE freq = "daily" -> <<cur + 1>>
        [] freq = "weekly" -> <<cur + 7>>
        [] freq = "monthly" -> <<months(3)>>
        [] freq = "quarterly" -> <<months(3)>>
        [] freq = "semiannually" -> <<months(6)>>
        [] freq = "annually" -> <<months(12)>>
        [] OTHER -> <<>>

\* lines 89-104: <<the new cursor>>, or <<>> for the else branch of line 105
PeriodAdvance(cur, freq, start) ==
  LET day == IF DayOf(start) <= 28 THEN DayOf(start) ELSE 28
      months(k) == ReplaceDay(AddMonths(ReplaceDay(cur, 1), k), day)
  IN  CASE freq = "daily" -> <<cur + 1>>
        [] freq = "weekly" -> <<cur + 7>>
        [] freq = "monthly" -> <<months(1)>>
        [] freq = "quarterly" -> <<months(3)>>
        [] freq = "semiannually" -> <<months(6)>>
        [] freq = "annually" -> <<months(12)>>
        [] OTHER -> <<>>

\* lines 81-104: one iteration of the outer loop
ScheduleStep ==
  /\ pc = "schedule"
  /\ LoopCond(current, Strptime(end_date_str))
  /\ CanRoll(current, trading_days)
  /\ \E rolled \in {Roll(current, trading_days)} :
       \E next \in {PeriodAdvance(rolled, frequency, Strptime(start_date_str))} :
         /\ next # <<>>
         /\ schedule' = Append(schedule, Strftime(rolled))
         /\ nominal' = Append(nominal, current)
         /\ current' = next[1]
  /\ pc' = "schedule"
  /\ UNCHANGED <<form, frame, trading_days, dca, metrics, lump>>

\* lines 83-85 when no trading day is on or after the cursor: the cursor is
\* incremented until datetime (or Timestamp) runs out of range and raises
ScheduleOverflow ==
  /\ pc = "schedule"
  /\ LoopCond(current, Strptime(end_date_str))
  /\ ~CanRoll(current, trading_days)
  /\ nominal' = Append(nominal, current)
  /\ pc' = "overflow_error"
  /\ UNCHANGED <<form, frame, trading_days, current, schedule, dca, metrics, lump>>

\* lines 81-87, 105-106: the date is appended, then ValueError is raised and
\* the list is lost with the frame of the call
ScheduleInvalidFrequency ==
  /\ pc = "schedule"
  /\ LoopCond(current, Strptime(end_date_str))
  /\ CanRoll(current, trading_days)
  /\ \E rolled \in {Roll(current, trading_days)} :
         /\ PeriodAdvance(rolled, frequency, Strptime(start_date_str)) = <<>>
         /\ schedule' = Append(schedule, Strftime(rolled))
         /\ nominal' = Append(nominal, current)
         /\ current' = rolled
  /\ pc' = "value_error"
  /\ UNCHANGED <<form, frame, trading_days, dca, metrics, lump>>

\* lines 81, 108, 114
ScheduleReturn ==
  /\ pc = "schedule"
  /\ ~LoopCond(current, Strptime(end_date_str))
  /\ pc' = "dca"
  /\ UNCHANGED <<form, frame, trading_days, gen, dca, metrics, lump>>

(***************************************************************************)
(* Lines 116-143: the DCA loop, the metrics and the lump-sum entry.        *)
(***************************************************************************)
\* line 121: the price of the first row dated d (.values[0])
Matches(d, t) == {i \in 1..Len(d) : d[i].Date = t}
HasRow(d, date) == \A t \in {Strptime(date)} : Matches(d, t) # {}
Lookup(d, date) ==
  d[CHOOSE i \in 1..Len(d) : \A t \in {Strptime(date)} :
      /\ d[i].Date = t
      /\ \A j \in 1..(i - 1) : d[j].Date # t].price

\* lines 117-118
StartDCA ==
  /\ pc = "dca"
  /\ total_contributions' = Flt(0)
  /\ total_shares' = Flt(0)
  /\ bought' = 0
  /\ pc' = "dca_loop"
  /\ UNCHANGED <<form, frame, trading_days, gen, metrics, lump>>

\* lines 120-124: one iteration, for the next date of the schedule
StepDCA ==
  /\ pc = "dca_loop"
  /\ bought < Len(schedule)
  /\ LET date == schedule[bought + 1]
     IN  IF HasRow(data, date)
           THEN LET price == Lookup(data, date)
                    shares_bought == FDiv(Flt(investment_amount), Flt(price))
                IN  /\ total_contributions' = FAdd(total_contributions, Flt(investment_amount))
                    /\ total_shares' = FAdd(total_shares, shares_bought)
                    /\ bought' = bought + 1
                    /\ pc' = "dca_loop"
           ELSE /\ pc' = "index_error"
                /\ UNCHANGED dca
  /\ UNCHANGED <<form, frame, trading_days, gen, metrics, lump>>

\* line 130
ReturnPct(growth, contributions) ==
  LET q == FDiv(growth, contributions)
  IN  IF IsFinite(q) THEN FMul(q, Flt(100)) ELSE q

\* lines 133-137
CAGR(ending, contributions, start, end) ==
  IF end - start > 0 /\ contributions[1] > 0
    THEN Pow(FDiv(ending, contributions), end - start)
    ELSE Flt(0)

\* lines 127-137
Metrics ==
  /\ pc = "dca_loop"
  /\ bought = Len(schedule)
  /\ LET latest_price == data[Len(data)].price
         ending == FMul(total_shares, Flt(latest_price))
         growth == FSub(ending, total_contributions)
     IN  /\ ending_value_dca' = ending
         /\ growth_dca' = growth
         /\ return_pct_dca' = ReturnPct(growth, total_contributions)
         /\ cagr_dca' = CAGR(ending, total_contributions, start_date_obj, end_date_obj)
  /\ pc' = "lump_sum"
  /\ UNCHANGED <<form, frame, trading_days, gen, dca, lump>>

\* line 140: resample('M').last() keeps, for every calendar month, its last
\* row; MonthEnds is the positions of those rows in the (chronological) frame
MonthKey(n) == YearOf(n) * 12 + MonthOf(n)
MonthEnds(d) ==
  {i \in 1..Len(d) :
     i = Len(d) \/ MonthKey(d[i + 1].Date) # MonthKey(d[i].Date)}

\* the entry price read from the daily frame instead of the monthly one
InitialPriceFirstRow(d) == d[1].price

\* line 141: monthly_data[price_column].iloc[0]
InitialPrice(d) ==
  d[CHOOSE i \in MonthEnds(d) : \A j \in MonthEnds(d) : i <= j].price

\* lines 140-142
LumpSum ==
  /\ pc = "lump_sum"
  /\ \E p \in {InitialPrice(data)} :
       /\ initial_price' = p
       /\ shares_lump_sum' = FDiv(Flt(lump_sum_amount), Flt(p))
  /\ pc' = "done"
  /\ UNCHANGED <<form, frame, trading_days, gen, dca, metrics>>

Next ==
  \/ Download
  \/ StopNoData
  \/ StopNoPriceColumn
  \/ ScheduleStart
  \/ ScheduleStep
  \/ ScheduleOverflow
  \/ ScheduleInvalidFrequency
  \/ ScheduleReturn
  \/ StartDCA
  \/ StepDCA
  \/ Metrics
  \/ LumpSum

Spec == Init /\ [][Next]_vars

(***************************************************************************)
(* Properties.                                                             *)
(***************************************************************************)
\* generate_schedule has returned its list to line 114
Returned == pc \in {"dca", "dca_loop", "index_error", "lump_sum", "done"}

\* the metrics of lines 127-137 have been computed
MetricsDone == pc \in {"lump_sum", "done"}

\* generate_schedule has not been called, or is executing
BeforeOrInCall ==
  {"download", "check_empty", "stopped_no_data", "stopped_no_column", "schedule"}

start == Strptime(start_date_str)
end == Strptime(end_date_str)

\* C1: every date of a returned schedule is a trading day, and the schedule
\* is strictly increasing.
C1_ScheduleOnTradingDaysIncreasing ==
  Returned =>
    /\ \A k \in 1..Len(schedule) : schedule[k] \in trading_days
    /\ \A k \in 1..(Len(schedule) - 1) : StrLess(schedule[k], schedule[k + 1])

\* a returned schedule of three or more dates, one of them rolled forward
C1_Witness ==
  /\ Returned
  /\ Len(schedule) >= 3
  /\ schedule[2] # Strftime(nominal[2])

\* start advanced by k periods, as the claim C2 words it
StartAdvanced(k) ==
  LET months(n) ==
        LET t == YearOf(start) * 12 + (MonthOf(start) - 1) + k * n
            day == IF DayOf(start) <= 28 THEN DayOf(start) ELSE 28
        IN  IF k = 0 THEN start ELSE Ord(t \div 12, (t % 12) + 1, day)
  IN  CASE frequency = "daily" -> start + k
        [] frequency = "weekly" -> start + 7 * k
        [] frequency = "monthly" -> months(1)
        [] frequency = "quarterly" -> months(3)
        [] frequency = "semiannually" -> months(6)
        [] frequency = "annually" -> months(12)

\* C2 as claimed: the k-th nominal date resolved is start advanced by k
\* periods, however far earlier dates were rolled.
C2_NominalIndependentOfRoll ==
  frequency \in ValidFrequencies =>
    \A k \in 1..Len(nominal) : nominal[k] = StartAdvanced(k - 1)

\* one period after the day n: 1 day, 7 days, or N months after n's month on
\* the day-of-month min(start.day, 28)
OnePeriodAfter(n) ==
  LET months(k) ==
        LET t == YearOf(n) * 12 + (MonthOf(n) - 1) + k
            day == IF DayOf(start) <= 28 THEN DayOf(start) ELSE 28
        IN  Ord(t \div 12, (t % 12) + 1, day)
  IN  CASE frequency = "daily" -> n + 1
        [] frequency = "weekly" -> n + 7
        [] frequency = "monthly" -> months(1)
        [] frequency = "quarterly" -> months(3)
        [] frequency = "semiannually" -> months(6)
        [] frequency = "annually" -> months(12)

\* C2 amended: the period advance is applied to the rolled trading day: the
\* first nominal date is start, and every later nominal date is one period
\* after the schedule date appended just before it.
C2_AdvanceFromRolledDate ==
  frequency \in ValidFrequencies /\ Len(nominal) >= 1 =>
    /\ nominal[1] = start
    /\ \A k \in 1..(Len(nominal) - 1) :
         nominal[k + 1] = OnePeriodAfter(Strptime(schedule[k]))

\* a date was rolled forward and a later nominal date follows it
C2_Witness ==
  /\ frequency \in ValidFrequencies
  /\ Len(nominal) >= 3
  /\ schedule[2] # Strftime(nominal[2])

\* C3 as claimed: with a frequency outside the six, a call of
\* generate_schedule ends in the invalid-frequency error, whatever start, end
\* and the trading days are, and returns no schedule.
C3_InvalidFrequencyAlwaysRaises ==
  frequency \notin ValidFrequencies /\ pc \notin BeforeOrInCall => pc = "value_error"

\* C4 as claimed: when nothing was contributed the percentage return and the
\* CAGR are 0, and when the horizon is not positive the CAGR is 0.
C4_DegenerateMetricsAreZero ==
  MetricsDone =>
    /\ total_contributions = Flt(0) =>
         return_pct_dca = Flt(0) /\ cagr_dca = Flt(0)
    /\ end_date_obj - start_date_obj <= 0 => cagr_dca = Flt(0)

\* C5: once an empty frame has been downloaded, the run stops with the
\* no-data error: generate_schedule is never entered and no contribution or
\* metric is computed.
C5_EmptySeriesStopsBeforeSchedule ==
  Len(data) = 0 /\ pc # "download" =>
    /\ pc \in {"check_empty", "stopped_no_data"}
    /\ current = None /\ schedule = <<>> /\ nominal = <<>>
    /\ total_contributions = None /\ total_shares = None
    /\ return_pct_dca = None /\ cagr_dca = None /\ shares_lump_sum = None

C5_Witness == pc = "stopped_no_data" /\ Len(data) = 0

\* the scenario of C6: every weekday from 2020-01-01 to 2020-03-31 at price
\* 100, 200 per period, monthly, from 2020-01-01 to 2020-03-31
C6_Scenario ==
  /\ start_date_str = <<2020, 1, 1>>
  /\ end_date_str = <<2020, 3, 31>>
  /\ frequency = "monthly"
  /\ investment_amount = 200
  /\ PriceColumn(columns) # "no column"
  /\ data = Rows("weekdays", {}, "flat", Ord(2020, 1, 1), Ord(2020, 3, 31))

\* C6: in the scenario the schedule is 2020-01-01, 2020-02-03, 2020-03-02 and
\* the simulation gives 600 contributed, 6 shares, an ending value of 600,
\* growth 0 and a return of 0 per cent.
C6_MonthlyScenario ==
  C6_Scenario =>
    /\ pc \notin {"overflow_error", "value_error", "index_error"}
    /\ Returned => schedule = <<<<2020, 1, 1>>, <<2020, 2, 3>>, <<2020, 3, 2>>>>
    /\ MetricsDone =>
         /\ total_contributions = Flt(600)
         /\ total_shares = Flt(6)
         /\ ending_value_dca = Flt(600)
         /\ growth_dca = Flt(0)
         /\ return_pct_dca = Flt(0)

C6_Witness == C6_Scenario /\ pc = "done" /\ Len(schedule) = 3

\* C7 as claimed: the lump sum is converted at the price of the earliest
\* trading day of the series.
C7_LumpSumAtEarliestPrice ==
  pc = "done" =>
    /\ initial_price = data[1].price
    /\ shares_lump_sum = FDiv(Flt(lump_sum_amount), Flt(data[1].price))

\* the last row dated in the calendar month of the first row
LastOfFirstMonth(d) ==
  CHOOSE i \in 1..Len(d) :
    /\ MonthKey(d[i].Date) = MonthKey(d[1].Date)
    /\ i = Len(d) \/ MonthKey(d[i + 1].Date) # MonthKey(d[1].Date)

\* C7 amended: the lump sum is converted at the first point of the monthly
\* resampled series, that is at the price of the last trading day of the
\* first calendar month of the series.
C7_LumpSumAtFirstMonthEnd ==
  pc = "done" =>
    \A i \in {LastOfFirstMonth(data)} :
      /\ \A j \in 1..Len(data) : data[j].Date <= data[i].Date \/ j > i
      /\ initial_price = data[i].price
      /\ shares_lump_sum = FDiv(Flt(lump_sum_amount), Flt(data[i].price))

\* a finished run whose first month ends at another price than it began
C7_Witness ==
  /\ pc = "done"
  /\ initial_price # data[1].price
  /\ shares_lump_sum = Flt(50)

\* C8: when start and end are the same trading day, each of the six
\* frequencies gives the one-element schedule of that day, and the total
\* contributed is the amount per period.
C8_SingleDaySchedule ==
  /\ start_date_str = end_date_str
  /\ start_date_str \in trading_days
  /\ frequency \in ValidFrequencies
  =>
    /\ pc \notin {"overflow_error", "value_error", "index_error"}
    /\ Returned => schedule = <<start_date_str>>
    /\ MetricsDone => total_contributions = Flt(investment_amount)

C8_Witness ==
  /\ start_date_str = end_date_str
  /\ start_date_str \in trading_days
  /\ frequency = "annually"
  /\ investment_amount = 200
  /\ pc = "done"
  /\ total_contributions = Flt(200)

\* C9 as claimed: with start <= end, one of the six frequencies and at least
\* one trading day, the roll-forward always reaches a trading day, so the
\* call never ends in the out-of-range error.
C9_RollAlwaysReachesTradingDay ==
  /\ start <= end
  /\ frequency \in ValidFrequencies
  /\ trading_days # {}
  => pc # "overflow_error"

\* C10: the date appended last resolves a nominal cursor that is not after
\* end and is the first trading day on or after that cursor, whether or not
\* it is after end; and the loop is left only with the cursor after end.
C10_StopOnNominalCursorOnly ==
  /\ pc # "overflow_error" /\ Len(schedule) >= 1 =>
       /\ Len(nominal) = Len(schedule)
       /\ nominal[Len(nominal)] <= end
       /\ \A raw \in {Strftime(nominal[Len(nominal)])} :
            /\ schedule[Len(schedule)] \in trading_days
            /\ ~StrLess(schedule[Len(schedule)], raw)
            /\ \A s \in trading_days :
                 StrLess(s, schedule[Len(schedule)]) => StrLess(s, raw)
  /\ Returned => current > end /\ Len(nominal) = Len(schedule)

\* a returned schedule whose last date was rolled past end
C10_Witness ==
  /\ Returned
  /\ Len(schedule) >= 2
  /\ StrLess(end_date_str, schedule[Len(schedule)])
  /\ nominal[Len(nominal)] <= end
====
